---- MODULE Spec2Model ----
(***************************************************************************)
(* Model of the RavenTransition component (src/unnamed/part_001): the      *)
(* image slots (useLoadedImages), the object-URL manager, and the          *)
(* transition scheduler of useTransitionCanvas (startTransition, animate,  *)
(* cancelAnimation, the resize/teardown effect and the static redraw       *)
(* effect).                                                                *)
(*                                                                         *)
(* One action is one browser event handler run to completion, followed by  *)
(* the React re-render it causes and the effects of that re-render, since  *)
(* React commits state updates and runs their effects before the next      *)
(* event is handled.                                                       *)
(*                                                                         *)
(* A hook callback (animate, drawFrame, drawStatic) reads the state of the *)
(* render that created it.  The chain of frame callbacks of one run is the *)
(* same `animate` closure throughout (it re-schedules itself by name), so  *)
(* the values it reads are those current when startTransition scheduled    *)
(* it: the env of the pending callback.  Refs (x.current) are read live.   *)
(***************************************************************************)
EXTENDS Integers, Sequences, FiniteSets, TLC

(* ----------------------------- bounds --------------------------------- *)
\* number of files uploaded (URL.createObjectURL calls) in AssetSpec
MaxUploads == 2
\* number of files uploaded in Spec
MaxRunUploads == 1
\* number of frame intervals the frame clock runs for
MaxFrames == 6
\* capacity of the browser's frame-callback queue in the model
MaxPendingFrames == 3

\* half the number of steps of the grid on [0,1] that the pure functions
\* are applied on: t = k / (2 * HalfGrid), so that 1/2 is a grid point
HalfGrid == 5

(* ------------------------ program constants --------------------------- *)
DefaultDuration == 1400
MinDuration == 800
MaxDuration == 2400

\* the duration slider's positions that the model tries
Durations == {MinDuration, DefaultDuration, MaxDuration}
\* time between two frame callbacks (ms)
FrameInterval == 500
FrameSteps == {FrameInterval, 2 * FrameInterval}
\* the frame clock stops at this timestamp (ms)
MaxTime == MaxFrames * FrameInterval
\* container sizes the model tries: getBoundingClientRect() of the stage
Viewports == { [width |-> 0, height |-> 0],
               [width |-> 640, height |-> 360] }

\* the degenerate sizes too: zero width only, zero height only
DegenerateViewports == { [width |-> 0, height |-> 360],
                         [width |-> 640, height |-> 0] }

Slots == {0, 1}

\* a source identifier: DEFAULT_SOURCES[i] is slot i's bundled image, n >= 1
\* is the n-th object URL created; a loaded image is identified by its src
DEFAULT_SOURCES == [i \in Slots |-> -2 - i]

\* images[i] = null
NoImage == -1

\* animationFrameRef.current = undefined ; ref.current[i] = ""
NoFrame == 0
NoUrl == 0

\* a progress value is the exact fraction num/den
NoProgress == [num |-> -1, den |-> 1]

\* no pure function is being applied
NoProbe == [kind |-> "none"]

VARIABLES
  sources,            \* useState sources (489)
  images,             \* useState images (127)
  loads,              \* Image objects created and not yet loaded
  uploads,            \* number of object URLs created so far
  urlRef,             \* useObjectUrlManager ref.current (155)
  revokeCount,        \* how often URL.revokeObjectURL was called per URL
  duration,           \* useState duration (490)
  activeIndex,        \* useState activeIndex (207)
  isAnimating,        \* useState isAnimating (208)
  animationFrameRef,  \* 209
  startTimestampRef,  \* 210
  transitionRef,      \* 211
  viewportRef,        \* 213 (width, height)
  isAnimatingRef,     \* 214
  pending,            \* frame callbacks requested and neither run nor
                      \* cancelled: [id, env], env what the animate closure
                      \* captured (duration, images, activeIndex)
  now,                \* the frame clock
  mounted,            \* the component is mounted
  lastEvent,          \* the handler that ran last
  draws,              \* the draw calls the last handler made, in order
  lastProgress,       \* progress of the latest frame of the current run
  probe               \* a pure function's arguments and, once applied, its
                      \* results (PureSpec only)

vars == << sources, images, loads, uploads, urlRef, revokeCount, duration,
           activeIndex, isAnimating, animationFrameRef, startTimestampRef,
           transitionRef, viewportRef, isAnimatingRef, pending,
           now, mounted, lastEvent, draws, lastProgress, probe >>

(* --------------------------- pure helpers ----------------------------- *)

\* Math.max(0, Math.min(1, num/den)), den > 0, as an exact fraction
clamp01(num, den) ==
  IF num <= 0 THEN [num |-> 0, den |-> 1]
  ELSE IF num >= den THEN [num |-> 1, den |-> 1]
  ELSE [num |-> num, den |-> den]

\* p < q for fractions with positive denominators
ProgressLess(p, q) == p.num * q.den < q.num * p.den

\* progress < 1
BelowOne(p) == p.num < p.den

\* a nextIndex that is 1 whatever is active
nextIndexOf_AlwaysOne(a) == 1

\* const nextIndex = activeIndex === 0 ? 1 : 0
nextIndexOf(a) == IF a = 0 THEN 1 ELSE 0

\* the handle requestAnimationFrame returns: one not in use
requestAnimationFrame(inUse) ==
  CHOOSE id \in 1..(MaxPendingFrames + 2) :
    /\ id \notin inUse
    /\ \A other \in 1..(MaxPendingFrames + 2) : other \notin inUse => id <= other

\* a cancelAnimation that clears the ref and forgets cancelAnimationFrame
cancelAnimation_NoCancel(ref, queue) == queue

\* cancelAnimation (370-375): the frame queue after it ran
cancelAnimation(ref, queue) ==
  IF ref # NoFrame THEN {cb \in queue : cb.id # ref} ELSE queue

\* the handles of the callbacks in the queue
Ids(queue) == {cb.id : cb \in queue}

\* a drawStatic without the zero-size check
drawStatic_NoViewportCheck(idx, imgs, vp) ==
  [ op |-> "static", a |-> imgs[idx], b |-> NoImage, progress |-> NoProgress,
    width |-> vp.width, height |-> vp.height, drew |-> TRUE ]

\* drawStatic of the closure that sees (idx, imgs); the viewport is a ref
drawStatic(idx, imgs, vp) ==
  [ op |-> "static", a |-> imgs[idx], b |-> NoImage, progress |-> NoProgress,
    width |-> vp.width, height |-> vp.height,
    drew |-> (vp.width # 0 /\ vp.height # 0) ]

\* drawFrame of the closure that sees imgs; transitionRef and viewport are refs
drawFrame(p, imgs, tr, vp) ==
  [ op |-> "frame", a |-> imgs[tr.from], b |-> imgs[tr.to], progress |-> p,
    width |-> vp.width, height |-> vp.height,
    drew |-> ( /\ vp.width # 0 /\ vp.height # 0
               /\ imgs[tr.from] # NoImage /\ imgs[tr.to] # NoImage ) ]

\* the static redraw effect (430-434) after a render with new images or
\* activeIndex
staticRedrawEffect(animating, idx, imgs, vp) ==
  IF animating THEN << >> ELSE << drawStatic(idx, imgs, vp) >>

\* the Image objects the useLoadedImages effect creates for `srcs`
newLoads(srcs, gen) == { [slot |-> i, src |-> srcs[i], gen |-> gen] : i \in Slots }

(* --------------------- easing, geometry, feathers --------------------- *)
\* Numbers are exact fractions [num, den], den > 0.

\* p <= q
FracLeq(p, q) == p.num * q.den <= q.num * p.den

\* the grid on [0,1]
Grid == 2 * HalfGrid
GridPoints == { [num |-> k, den |-> Grid] : k \in 0..Grid }

\* a first branch that squares where the code cubes
cubicIn_Squared(t) ==
  [num |-> 4 * t.num * t.num, den |-> t.den * t.den]

\* 4 * t * t * t (50, first branch)
cubicIn(t) ==
  [num |-> 4 * t.num * t.num * t.num, den |-> t.den * t.den * t.den]

\* 1 - Math.pow(-2 * t + 2, 3) / 2 (50, second branch)
cubicOut(t) ==
  LET u == 2 * t.den - 2 * t.num
      d == t.den * t.den * t.den
  IN [num |-> 2 * d - u * u * u, den |-> 2 * d]

\* easeInOutCubic (49-50): t < 0.5 ? ... : ...
easeInOutCubic(t) == IF 2 * t.num < t.den THEN cubicIn(t) ELSE cubicOut(t)

\* easeOutQuart (52): 1 - Math.pow(1 - t, 4)
easeOutQuart(t) ==
  LET u == t.den - t.num
      d == t.den * t.den * t.den * t.den
  IN [num |-> d - u * u * u * u, den |-> d]

\* RAVEN_POINTS (21-47), [nx, ny] in hundredths
RAVEN_POINTS ==
  << << -28, 52 >>, << -10, 42 >>, << 6, 33 >>, << 15, 24 >>, << 28, 12 >>,
     << 38, 3 >>, << 50, -8 >>, << 62, -18 >>, << 75, -23 >>, << 87, -18 >>,
     << 100, -8 >>, << 107, 2 >>, << 116, 8 >>, << 122, 18 >>, << 126, 28 >>,
     << 124, 38 >>, << 116, 48 >>, << 102, 58 >>, << 90, 66 >>, << 72, 72 >>,
     << 54, 70 >>, << 36, 68 >>, << 18, 66 >>, << 4, 62 >>, << -12, 58 >> >>

\* Math.min(width, height)
Min(a, b) == IF a <= b THEN a ELSE b

\* computeRavenGeometry (94-124), the x coordinates of the polygon: x of
\* point k is xs[k] / scale.  With eased = n/d, base = min(width, height):
\*   shapeWidth  = base * 132 / 100          shapeHeight = base * 74 / 100
\*   travel      = width + shapeWidth * 85 / 100
\*   offsetX     = eased * travel - shapeWidth * 75 / 100
\*   skew        = (eased - 1/2) * 55 / 100
\*   scaledX     = offsetX + shapeWidth * (nx + 15/100)
\*                 + (ny - 1/2) * shapeHeight * skew
\* every term is brought to the denominator 2 * 10^6 * d.
computeRavenGeometry(width, height, progress) ==
  LET eased == easeInOutCubic(progress)
      n == eased.num
      d == eased.den
      base == Min(width, height)
      shapeWidth100 == base * 132
      shapeHeight100 == base * 74
      travel10000 == width * 10000 + shapeWidth100 * 85
      offsetX == 200 * (n * travel10000 - d * shapeWidth100 * 75)
      skew == (2 * n - d) * 55
      scaledX(pt) == offsetX + 200 * d * shapeWidth100 * (pt[1] + 15)
                     + (pt[2] - 50) * shapeHeight100 * skew
  IN [ scale |-> 2000000 * d,
       offsetX |-> offsetX,
       xs |-> [k \in 1..Len(RAVEN_POINTS) |-> scaledX(RAVEN_POINTS[k])] ]

\* seed.delay = (idx % 6) * 0.05 (187), in twentieths
FeatherDelays == 0..5

\* the base angle of a feather (293), in thousandths of a radian
FeatherBaseAngle == -350

\* values of seed.sway = Math.sin(seed * 0.61) * 0.9 (188), in thousandths:
\* the ends of its range, zero, and one value on each side
FeatherSways == {-900, -300, 0, 300, 900}

\* const local = (progress - seed.delay) / 0.75 (280)
featherLocal(progress, delay) ==
  [num |-> 20 * progress.num - delay * progress.den, den |-> 15 * progress.den]

\* const clamped = clamp01(local); const fade = 1 - clamped (282-283)
featherFade(local) ==
  LET clamped == clamp01(local.num, local.den)
  IN [num |-> clamped.den - clamped.num, den |-> clamped.den]

\* the feather is drawn: neither `local <= 0` (281) nor `fade <= 0.01` (284)
featherDrawn(local, fade) == local.num > 0 /\ 100 * fade.num > fade.den

\* a rotation that scales the sway by fade
featherRotation_SwayTimesFade(sway, fade) ==
  [num |-> FeatherBaseAngle * fade.den + sway * fade.num, den |-> fade.den]

\* ctx.rotate(-0.35 + seed.sway * (1 - fade)) (293), in thousandths of a
\* radian
featherRotation(sway, fade) ==
  [num |-> FeatherBaseAngle * fade.den + sway * (fade.den - fade.num),
   den |-> fade.den]

(* ------------------------------ Init ---------------------------------- *)
\* The state after the first render and its effects: both default sources
\* are loading, the viewport is measured, the placeholder is drawn.
Mount ==
  /\ sources = DEFAULT_SOURCES
  /\ images = [i \in Slots |-> NoImage]
  /\ loads = newLoads(DEFAULT_SOURCES, 0)
  /\ uploads = 0
  /\ urlRef = [i \in Slots |-> NoUrl]
  /\ revokeCount = << >>
  /\ duration = DefaultDuration
  /\ activeIndex = 0
  /\ isAnimating = FALSE
  /\ animationFrameRef = NoFrame
  /\ startTimestampRef = 0
  /\ transitionRef = [from |-> 0, to |-> 1]
  /\ viewportRef \in Viewports
  /\ isAnimatingRef = FALSE
  /\ pending = {}
  /\ now = 0
  /\ mounted = TRUE
  /\ lastEvent = "mount"
  /\ draws = << drawStatic(0, [i \in Slots |-> NoImage], viewportRef) >>
  /\ lastProgress = NoProgress

Init == Mount /\ probe = NoProbe

(* ----------------------- pieces of the handlers ------------------------ *)

\* a setUrl that overwrites the slot's URL without revoking it
revokedBySetUrl_Leak(counts, current) == counts

\* setUrl (166-172): the previous URL of the slot, if any, is revoked
revokedBySetUrl(counts, current) ==
  IF current # NoUrl THEN [counts EXCEPT ![current] = @ + 1] ELSE counts

\* the teardown of useObjectUrlManager (159-163): every URL held is revoked
revokedByCleanup(counts, urls) ==
  [h \in DOMAIN counts |-> counts[h] + Cardinality({i \in Slots : urls[i] = h})]

\* a startTransition without the running guard
startBlocked_Never(running) == FALSE

\* if (isAnimatingRef.current) return (401)
startBlocked(running) == running

\* a guard that looks at the active image only
imagesMissing_ActiveOnly(imgs, idx) == imgs[idx] = NoImage

\* if (!images[activeIndex] || !images[nextIndex]) return (403)
imagesMissing(imgs, idx) ==
  imgs[idx] = NoImage \/ imgs[nextIndexOf(idx)] = NoImage

\* an animate that reads the duration live
animateDuration_Live(env, current) == current

\* the duration `animate` divides by (383): the one its closure captured
animateDuration(env, current) == env.duration

\* a completion that commits the index the run started from
committedIndex_From(tr) == tr.from

\* setActiveIndex(transitionRef.current.to) (391)
committedIndex(tr) == tr.to

\* the activeIndex the completing tick's drawStatic() reads (394): the one
\* its closure captured
completionStaticIndex(env, committed) == env.activeIndex

\* image.onload commits unconditionally (141-147)
loadCommitted(l, srcs) == TRUE

\* a completion that clears the ref and forgets setIsAnimating(false)
isAnimatingAfterCompletion_Kept(current) == current

\* setIsAnimating(false) (390)
isAnimatingAfterCompletion(current) == FALSE

\* an animate that never records the timestamp of its first tick
runStart_Unset(ref, timestamp) == ref

\* if (!startTimestampRef.current) startTimestampRef.current = timestamp
\* (379-381): the run-start timestamp after it
runStart(ref, timestamp) == IF ref = 0 THEN timestamp ELSE ref

\* a handleResize that redraws whatever the scheduler does
resizeRedraws_Always(running) == TRUE

\* if (!isAnimatingRef.current) drawStatic() (418-420)
resizeRedraws(running) == ~running

(* ----------------------------- actions -------------------------------- *)

\* a startTransition that only requests a frame: no running guard, no
\* cancelAnimation
startTransition_Unguarded ==
  /\ lastEvent' = "start"
  /\ mounted
  /\ draws' = << >>
  /\ IF imagesMissing(images, activeIndex)
     THEN UNCHANGED << transitionRef, isAnimatingRef, isAnimating,
                       startTimestampRef, animationFrameRef, pending,
                       lastProgress >>
     ELSE LET id == requestAnimationFrame(Ids(pending) \cup {animationFrameRef})
              env == [duration |-> duration, images |-> images,
                      activeIndex |-> activeIndex]
          IN /\ Cardinality(pending) < MaxPendingFrames
             /\ transitionRef' = [from |-> activeIndex, to |-> nextIndexOf(activeIndex)]
             /\ isAnimatingRef' = TRUE
             /\ isAnimating' = TRUE
             /\ startTimestampRef' = 0
             /\ animationFrameRef' = id
             /\ pending' = pending \cup {[id |-> id, env |-> env]}
             /\ lastProgress' = NoProgress
  /\ UNCHANGED << sources, images, loads, uploads, urlRef, revokeCount,
                  duration, activeIndex, viewportRef, now, mounted >>
  /\ UNCHANGED probe

\* startTransition (400-411), the trigger button's onClick
startTransition ==
  /\ lastEvent' = "start"
  /\ mounted
  /\ draws' = << >>
  /\ IF startBlocked(isAnimatingRef) \/ imagesMissing(images, activeIndex)
     THEN UNCHANGED << transitionRef, isAnimatingRef, isAnimating,
                       startTimestampRef, animationFrameRef, pending,
                       lastProgress >>
     ELSE LET queue == cancelAnimation(animationFrameRef, pending)
              id == requestAnimationFrame(Ids(pending) \cup {animationFrameRef})
              env == [duration |-> duration, images |-> images,
                      activeIndex |-> activeIndex]
          IN /\ Cardinality(queue) < MaxPendingFrames
             /\ transitionRef' = [from |-> activeIndex, to |-> nextIndexOf(activeIndex)]
             /\ isAnimatingRef' = TRUE
             /\ isAnimating' = TRUE
             /\ startTimestampRef' = 0
             /\ animationFrameRef' = id
             /\ pending' = queue \cup {[id |-> id, env |-> env]}
             /\ lastProgress' = NoProgress
  /\ UNCHANGED << sources, images, loads, uploads, urlRef, revokeCount,
                  duration, activeIndex, viewportRef, now, mounted >>
  /\ UNCHANGED probe

\* animate (377-398): the frame callback cb runs at timestamp now + dt
animate(cb, dt) ==
  /\ lastEvent' = "tick"
  /\ cb \in pending
  /\ now + dt <= MaxTime
  /\ now' = now + dt
  /\ LET timestamp == now + dt
         start == runStart(startTimestampRef, timestamp)
         elapsed == timestamp - start
         progress == clamp01(elapsed, animateDuration(cb.env, duration))
         frame == drawFrame(progress, cb.env.images, transitionRef, viewportRef)
         fired == pending \ {cb}
     IN /\ lastProgress' = progress
        /\ IF BelowOne(progress)
           THEN LET next == requestAnimationFrame(Ids(pending) \cup {animationFrameRef})
                IN /\ Cardinality(fired) < MaxPendingFrames
                   /\ startTimestampRef' = start
                   /\ animationFrameRef' = next
                   /\ pending' = fired \cup {[id |-> next, env |-> cb.env]}
                   /\ draws' = << frame >>
                   /\ UNCHANGED << isAnimatingRef, isAnimating, activeIndex >>
           ELSE LET committed == IF mounted THEN committedIndex(transitionRef)
                                            ELSE activeIndex
                IN /\ isAnimatingRef' = FALSE
                   /\ isAnimating' = IF mounted THEN isAnimatingAfterCompletion(isAnimating)
                                   ELSE isAnimating
                   /\ activeIndex' = committed
                   /\ startTimestampRef' = 0
                   /\ pending' = cancelAnimation(animationFrameRef, fired)
                   /\ animationFrameRef' = NoFrame
                   \* drawStatic() of the closure, then the re-render's
                   \* static redraw effect
                   /\ draws' = << frame,
                                  drawStatic(completionStaticIndex(cb.env, committed),
                                             cb.env.images, viewportRef) >>
                                \o (IF mounted /\ committed # activeIndex
                                    THEN staticRedrawEffect(FALSE, committed, images,
                                                            viewportRef)
                                    ELSE << >>)
  /\ UNCHANGED << sources, images, loads, uploads, urlRef, revokeCount,
                  duration, transitionRef, viewportRef, mounted >>
  /\ UNCHANGED probe

\* handleResize (416-421): the window's resize event, the container now
\* measuring vp
handleResize(vp) ==
  /\ lastEvent' = "resize"
  /\ mounted
  /\ viewportRef' = vp
  /\ draws' = IF resizeRedraws(isAnimatingRef)
              THEN << drawStatic(activeIndex, images, vp) >>
              ELSE << >>
  /\ UNCHANGED << sources, images, loads, uploads, urlRef, revokeCount,
                  duration, activeIndex, isAnimating, animationFrameRef,
                  startTimestampRef, transitionRef, isAnimatingRef, pending,
                  now, mounted, lastProgress >>
  /\ UNCHANGED probe

\* image.onload (141-147) of the Image object l, then the re-render: the
\* resize/teardown effect is cleaned up and re-run (drawStatic changed), and
\* the static redraw effect runs
imageOnload(l) ==
  /\ lastEvent' = "load"
  /\ l \in loads
  /\ loads' = loads \ {l}
  /\ IF mounted /\ loadCommitted(l, sources)
     THEN /\ images' = [images EXCEPT ![l.slot] = l.src]
          /\ pending' = cancelAnimation(animationFrameRef, pending)
          /\ animationFrameRef' = NoFrame
          /\ draws' = staticRedrawEffect(isAnimatingRef, activeIndex, images',
                                         viewportRef)
     ELSE /\ draws' = << >>
          /\ UNCHANGED << images, pending, animationFrameRef >>
  /\ UNCHANGED << sources, uploads, urlRef, revokeCount, duration, activeIndex,
                  isAnimating, startTimestampRef, transitionRef, viewportRef,
                  isAnimatingRef, now, mounted, lastProgress >>
  /\ UNCHANGED probe

\* replaceSource (503-515) with setUrl (166-172), then the re-render: the
\* useLoadedImages effect (129-149) starts a load for every slot and clears
\* every slot, and that re-render re-runs the effects that depend on images
replaceSource(index, hasFile) ==
  /\ lastEvent' = "replace"
  /\ mounted
  /\ IF ~hasFile
     THEN /\ draws' = << >>
          /\ UNCHANGED << sources, images, loads, uploads, urlRef, revokeCount,
                          pending, animationFrameRef >>
     ELSE LET objectUrl == uploads + 1
              next == [sources EXCEPT ![index] = objectUrl]
          IN /\ uploads' = objectUrl
             /\ sources' = next
             /\ revokeCount' = Append(revokedBySetUrl(revokeCount, urlRef[index]), 0)
             /\ urlRef' = [urlRef EXCEPT ![index] = objectUrl]
             /\ loads' = loads \cup newLoads(next, objectUrl)
             /\ images' = [i \in Slots |-> NoImage]
             /\ pending' = cancelAnimation(animationFrameRef, pending)
             /\ animationFrameRef' = NoFrame
             /\ draws' = staticRedrawEffect(isAnimatingRef, activeIndex, images',
                                            viewportRef)
  /\ UNCHANGED << duration, activeIndex, isAnimating, startTimestampRef,
                  transitionRef, viewportRef, isAnimatingRef, now,
                  mounted, lastProgress >>
  /\ UNCHANGED probe

\* setDuration (544): the slider; no effect depends on duration
setDuration(d) ==
  /\ lastEvent' = "duration"
  /\ mounted
  /\ duration' = d
  /\ draws' = << >>
  /\ UNCHANGED << sources, images, loads, uploads, urlRef, revokeCount,
                  activeIndex, isAnimating, animationFrameRef,
                  startTimestampRef, transitionRef, viewportRef, isAnimatingRef,
                  pending, now, mounted, lastProgress >>
  /\ UNCHANGED probe

\* unmount: the cleanups of the effects (159-163, 424-427)
unmount ==
  /\ lastEvent' = "unmount"
  /\ mounted
  /\ mounted' = FALSE
  /\ draws' = << >>
  /\ pending' = cancelAnimation(animationFrameRef, pending)
  /\ animationFrameRef' = NoFrame
  /\ revokeCount' = revokedByCleanup(revokeCount, urlRef)
  /\ UNCHANGED << sources, images, loads, uploads, urlRef, duration,
                  activeIndex, isAnimating, startTimestampRef, transitionRef,
                  viewportRef, isAnimatingRef, now, lastProgress >>
  /\ UNCHANGED probe

Tick == \E cb \in pending, dt \in FrameSteps : animate(cb, dt)
Resize == \E vp \in Viewports : handleResize(vp)
Load == \E l \in loads : imageOnload(l)
\* the file pickers (541-542), for at most `limit` uploads
ReplaceUpTo(limit) ==
  \E index \in Slots, hasFile \in BOOLEAN :
    /\ hasFile => uploads < limit
    /\ replaceSource(index, hasFile)
Replace == ReplaceUpTo(MaxRunUploads)
AssetReplace == ReplaceUpTo(MaxUploads)
Duration == \E d \in Durations : setDuration(d)

Next ==
  \/ startTransition
  \/ Tick
  \/ Resize
  \/ Load
  \/ Replace
  \/ Duration
  \/ unmount

Spec == Init /\ [][Next]_vars

\* the scheduler with the default images only, every kind of viewport
DegenerateResize == \E vp \in Viewports \cup DegenerateViewports : handleResize(vp)

SchedulerNext ==
  \/ startTransition
  \/ Tick
  \/ DegenerateResize
  \/ Load
  \/ Duration
  \/ unmount

SchedulerSpec == Init /\ [][SchedulerNext]_vars

\* the asset slots alone: uploads, loads and teardown
AssetNext ==
  \/ AssetReplace
  \/ Load
  \/ unmount

AssetSpec == Init /\ [][AssetNext]_vars

(* ------------------ the pure functions on their own ------------------- *)
\* container sizes the geometry is computed for (width, height > 0)
GeometrySizes == {1, 36, 64, 100}

\* two arguments s <= t of the easing functions
EasingInputs ==
  { [kind |-> "easing", s |-> s, t |-> t, applied |-> FALSE] :
      s \in GridPoints, t \in GridPoints }

\* a viewport and the progress of the first or of the last frame of a run
GeometryInputs ==
  { [kind |-> "geometry", width |-> w, height |-> h, progress |-> p,
     applied |-> FALSE] :
      w \in GeometrySizes, h \in GeometrySizes,
      p \in {[num |-> 0, den |-> 1], [num |-> 1, den |-> 1]} }

\* a feather seed and the progress of two frames
FeatherInputs ==
  { [kind |-> "feather", delay |-> dl, sway |-> sw, p |-> p, q |-> q,
     applied |-> FALSE] :
      dl \in FeatherDelays, sw \in FeatherSways,
      p \in GridPoints, q \in GridPoints }

PureInit ==
  /\ Mount
  /\ \/ probe \in EasingInputs
     \/ probe \in GeometryInputs
     \/ probe \in FeatherInputs

componentVars ==
  << sources, images, loads, uploads, urlRef, revokeCount, duration,
     activeIndex, isAnimating, animationFrameRef, startTimestampRef,
     transitionRef, viewportRef, isAnimatingRef, pending,
     now, mounted, lastEvent, draws, lastProgress >>

\* both easing functions applied to s and to t
applyEasing ==
  /\ probe.kind = "easing"
  /\ ~probe.applied
  /\ probe' = [ kind |-> "easing", s |-> probe.s, t |-> probe.t,
                applied |-> TRUE,
                inOutS |-> easeInOutCubic(probe.s),
                inOutT |-> easeInOutCubic(probe.t),
                quartS |-> easeOutQuart(probe.s),
                quartT |-> easeOutQuart(probe.t),
                firstBranchT |-> cubicIn(probe.t),
                secondBranchT |-> cubicOut(probe.t) ]
  /\ UNCHANGED componentVars

\* the silhouette polygon of one frame
applyGeometry ==
  /\ probe.kind = "geometry"
  /\ ~probe.applied
  /\ probe' = [ kind |-> "geometry", width |-> probe.width,
                height |-> probe.height, progress |-> probe.progress,
                applied |-> TRUE,
                geometry |-> computeRavenGeometry(probe.width, probe.height,
                                                  probe.progress) ]
  /\ UNCHANGED componentVars

\* what drawFeathers does with one seed in the frame of progress pr
feather(delay, sway, pr) ==
  LET local == featherLocal(pr, delay)
      fade == featherFade(local)
  IN [ drawn |-> featherDrawn(local, fade), fade |-> fade,
       rotation |-> featherRotation(sway, fade) ]

\* one seed of drawFeathers in two frames
applyFeather ==
  /\ probe.kind = "feather"
  /\ ~probe.applied
  /\ probe' = [ kind |-> "feather", delay |-> probe.delay, sway |-> probe.sway,
                p |-> probe.p, q |-> probe.q, applied |-> TRUE,
                atP |-> feather(probe.delay, probe.sway, probe.p),
                atQ |-> feather(probe.delay, probe.sway, probe.q) ]
  /\ UNCHANGED componentVars

PureNext ==
  \/ applyEasing
  \/ applyGeometry
  \/ applyFeather

PureSpec == PureInit /\ [][PureNext]_vars

(* ------------------------------ claims -------------------------------- *)

\* C1: at every moment a slot's loaded image is either absent or the image
\* of the slot's current source identifier (a superseded load is discarded).
C1_LoadedImageIsOfCurrentSource ==
  \A i \in Slots : images[i] = NoImage \/ images[i] = sources[i]

\* C2: a run that has started and is not torn down always finishes whatever
\* else happens; in particular it never loses its frame callback: while the
\* scheduler is Running and mounted, a tick is pending.
C2_RunningKeepsItsTick ==
  (mounted /\ isAnimatingRef) => pending # {}

\* C3: a start request received while Running changes nothing of the
\* scheduler: TransitionState, activeIndex, the run-start timestamp, the
\* pending tick, isAnimating and the progress of the run.
C3_StartWhileRunningIsNoOp ==
  [][ (lastEvent' = "start" /\ isAnimatingRef) =>
        UNCHANGED << transitionRef, activeIndex, startTimestampRef,
                     animationFrameRef, pending, isAnimating, isAnimatingRef,
                     lastProgress, now, duration, images >> ]_vars

\* a start request arrived while a run was past its first frame
C3_Witness ==
  /\ lastEvent = "start"
  /\ isAnimatingRef
  /\ startTimestampRef # 0
  /\ pending # {}

\* C4: a start request while Idle with the active or the other image absent
\* is ignored (still Idle, isAnimating false, no tick, TransitionState and
\* activeIndex unchanged); Idle -> Running happens only by a start request
\* with both slots resolved.
C4_StartNeedsBothImages ==
  [][ /\ ( /\ lastEvent' = "start"
           /\ ~isAnimatingRef
           /\ \E i \in Slots : images[i] = NoImage )
        => /\ ~isAnimatingRef'
           /\ ~isAnimating'
           /\ pending' = {}
           /\ UNCHANGED << transitionRef, activeIndex, animationFrameRef,
                           startTimestampRef, isAnimating, pending >>
      /\ (~isAnimatingRef /\ isAnimatingRef')
        => /\ lastEvent' = "start"
           /\ \A i \in Slots : images[i] # NoImage ]_vars

\* the trigger was pressed with slot 0 resolved and slot 1 unresolved
C4_Witness ==
  /\ lastEvent = "start"
  /\ mounted
  /\ ~isAnimatingRef
  /\ ~isAnimating
  /\ images[0] # NoImage
  /\ images[1] = NoImage

\* C5: activeIndex changes only when a run completes, and then to the
\* toIndex of TransitionState, which is fixed while the run lasts and is the
\* other index: completed runs make activeIndex alternate.
C5_CompletionCommitsToIndex ==
  [][ /\ (activeIndex' # activeIndex)
        => (lastEvent' = "tick" /\ isAnimatingRef /\ ~isAnimatingRef')
      /\ (isAnimatingRef /\ ~isAnimatingRef')
        => /\ lastEvent' = "tick"
           /\ activeIndex' = transitionRef.to
           /\ activeIndex' = 1 - activeIndex
      /\ isAnimatingRef => transitionRef' = transitionRef ]_vars

\* the second run has completed: 0 -> 1 -> 0
C5_Witness ==
  /\ lastEvent = "tick"
  /\ ~isAnimatingRef
  /\ transitionRef = [from |-> 1, to |-> 0]
  /\ activeIndex = 0

\* C6: at most one frame callback is pending, it is the one
\* animationFrameRef names, and it belongs to the one run in progress.
C6_AtMostOnePendingTick ==
  /\ Cardinality(pending) <= 1
  /\ pending # {} => (Ids(pending) = {animationFrameRef} /\ isAnimatingRef)

\* a second start request arrived during a run and one callback is pending
C6_Witness ==
  /\ lastEvent = "start"
  /\ isAnimatingRef
  /\ startTimestampRef # 0
  /\ Cardinality(pending) = 1

\* C7: every tick draws one frame with progress in [0,1], and within one run
\* each frame's progress is strictly greater than the previous frame's.
C7_ProgressStrictlyIncreases ==
  [][ lastEvent' = "tick" =>
        /\ Len(draws') >= 1
        /\ draws'[1].op = "frame"
        /\ draws'[1].progress = lastProgress'
        /\ 0 <= lastProgress'.num
        /\ lastProgress'.num <= lastProgress'.den
        /\ lastProgress # NoProgress => ProgressLess(lastProgress, lastProgress') ]_vars

\* a frame strictly inside the run, drawn after the duration was raised
\* during the run
C7_Witness ==
  /\ lastEvent = "tick"
  /\ isAnimatingRef
  /\ lastProgress.num > 0
  /\ \E cb \in pending : duration > cb.env.duration
  /\ draws[1].width # 0

\* C8: teardown cancels the pending tick and commits nothing: once unmounted
\* no frame callback is pending, none runs, nothing is drawn, and activeIndex
\* is still the fromIndex of the abandoned run.
C8_TeardownAbandonsRun ==
  /\ [](~mounted => /\ pending = {}
                    /\ isAnimatingRef => activeIndex = transitionRef.from)
  /\ [][ (lastEvent' = "unmount" \/ ~mounted) =>
           /\ lastEvent' # "tick"
           /\ draws' = << >>
           /\ activeIndex' = activeIndex
           /\ isAnimatingRef' = isAnimatingRef ]_vars

\* torn down in the middle of a run that no image change had disturbed
C8_Witness ==
  /\ lastEvent = "unmount"
  /\ isAnimatingRef
  /\ startTimestampRef # 0
  /\ uploads = 0
  /\ loads = {}

\* the object URLs created and not revoked
Unreleased == {h \in 1..uploads : revokeCount[h] = 0}

\* C9: while mounted the unreleased object URLs are exactly the ones the
\* slots hold (so a superseded URL is revoked when it is replaced, and at
\* most one per slot is unreleased), a slot's current uploaded source is
\* unreleased; after teardown none is unreleased; none is revoked twice.
C9_ObjectUrlsReleased ==
  /\ \A h \in 1..uploads : revokeCount[h] <= 1
  /\ mounted => /\ Unreleased = {urlRef[i] : i \in Slots} \ {NoUrl}
                /\ \A i \in Slots : sources[i] # DEFAULT_SOURCES[i] =>
                      (urlRef[i] = sources[i] /\ sources[i] \in Unreleased)
                /\ \A i \in Slots : sources[i] = DEFAULT_SOURCES[i] => urlRef[i] = NoUrl
  /\ ~mounted => Unreleased = {}

\* slot 0 was uploaded to twice, then the component was torn down
C9_Witness ==
  /\ ~mounted
  /\ uploads = 2
  /\ urlRef = [i \in Slots |-> IF i = 0 THEN 2 ELSE NoUrl]
  /\ revokeCount = << 1, 1 >>

\* C10: a resize while Idle makes one static draw of the active image at the
\* new size; a resize while Running draws nothing and leaves the run alone
\* (pending tick, run start, progress); every tick draws at the viewport
\* size current when it runs.
C10_ResizeDoesNotInterruptRun ==
  [][ /\ (lastEvent' = "resize" /\ ~isAnimatingRef)
        => /\ Len(draws') = 1
           /\ draws'[1].op = "static"
           /\ draws'[1].a = images[activeIndex]
           /\ draws'[1].width = viewportRef'.width
           /\ draws'[1].height = viewportRef'.height
      /\ (lastEvent' = "resize" /\ isAnimatingRef)
        => /\ draws' = << >>
           /\ UNCHANGED << pending, animationFrameRef, startTimestampRef,
                           isAnimatingRef, isAnimating, lastProgress, now,
                           transitionRef, activeIndex >>
      /\ lastEvent' = "tick"
        => /\ draws'[1].width = viewportRef.width
           /\ draws'[1].height = viewportRef.height ]_vars

\* the viewport was resized to a new size during a run, a tick pending
C10_Witness ==
  /\ lastEvent = "resize"
  /\ isAnimatingRef
  /\ startTimestampRef # 0
  /\ pending # {}
  /\ viewportRef.width # 0

\* C11: the observable isAnimating equals the internal running flag in every
\* state (true from an accepted start to the completion), a pending tick
\* implies isAnimating, and activeIndex is 0 or 1.
C11_StatusReflectsScheduler ==
  /\ isAnimating = isAnimatingRef
  /\ pending # {} => isAnimating
  /\ activeIndex \in {0, 1}

\* a frame in the middle of the second run: animating, showing index 1
C11_Witness ==
  /\ lastEvent = "tick"
  /\ isAnimating
  /\ isAnimatingRef
  /\ activeIndex = 1
  /\ transitionRef = [from |-> 1, to |-> 0]

\* the viewport has zero width or zero height
ZeroArea(w, h) == w = 0 \/ h = 0

\* C12: with a viewport of zero width or zero height no draw call draws
\* anything, and the scheduler moves as with any viewport: an accepted start
\* schedules one tick, a tick below progress 1 re-schedules, and the tick at
\* progress 1 commits activeIndex = toIndex and returns to Idle.
C12_ZeroViewportSuppressesDrawing ==
  /\ [](\A k \in 1..Len(draws) :
          ZeroArea(draws[k].width, draws[k].height) => ~draws[k].drew)
  /\ [][ /\ ( /\ lastEvent' = "start"
              /\ ~isAnimatingRef
              /\ \A i \in Slots : images[i] # NoImage )
           => /\ isAnimatingRef'
              /\ Cardinality(pending') = 1
              /\ transitionRef' = [from |-> activeIndex, to |-> 1 - activeIndex]
         /\ (lastEvent' = "tick" /\ lastProgress'.num < lastProgress'.den)
           => /\ isAnimatingRef'
              /\ Cardinality(pending') = 1
              /\ activeIndex' = activeIndex
         /\ (lastEvent' = "tick" /\ lastProgress'.num = lastProgress'.den)
           => /\ ~isAnimatingRef'
              /\ pending' = {}
              /\ activeIndex' = transitionRef.to ]_vars

\* a run has completed while the viewport had zero width only: three draw
\* calls, none of which drew
C12_Witness ==
  /\ lastEvent = "tick"
  /\ ~isAnimatingRef
  /\ activeIndex = 1
  /\ viewportRef.width = 0
  /\ viewportRef.height # 0
  /\ Len(draws) = 3
  /\ \A k \in 1..3 : ~draws[k].drew

\* C13: both easing functions map 0 to 0 and 1 to 1, stay in [0,1] and are
\* non-decreasing on the grid (f(s) <= f(t) whenever s <= t), and at t = 1/2
\* both branches of easeInOutCubic give 1/2.
C13_EasingMonotone ==
  (probe.kind = "easing" /\ probe.applied) =>
    /\ probe.s.num = 0 => (probe.inOutS.num = 0 /\ probe.quartS.num = 0)
    /\ probe.t.num = probe.t.den
          => /\ probe.inOutT.num = probe.inOutT.den
             /\ probe.quartT.num = probe.quartT.den
    /\ \A v \in {probe.inOutS, probe.inOutT, probe.quartS, probe.quartT} :
          0 <= v.num /\ v.num <= v.den
    /\ FracLeq(probe.s, probe.t)
          => /\ FracLeq(probe.inOutS, probe.inOutT)
             /\ FracLeq(probe.quartS, probe.quartT)
    /\ 2 * probe.t.num = probe.t.den
          => /\ 2 * probe.firstBranchT.num = probe.firstBranchT.den
             /\ 2 * probe.secondBranchT.num = probe.secondBranchT.den
             /\ probe.inOutT = probe.secondBranchT

\* the functions applied on the two sides of the branch point: the grid
\* point just below 1/2, and 1/2
C13_Witness ==
  /\ probe.kind = "easing"
  /\ probe.applied
  /\ probe.s.num = HalfGrid - 1
  /\ probe.t.num = HalfGrid
  /\ probe.inOutS = cubicIn(probe.s)
  /\ probe.inOutS.num > 0

\* C14: when a run completes, the static draw that the completing tick
\* itself issues (the second draw call of that tick, after the last frame)
\* draws the image of the new active index, the toIndex of the run, and not
\* the image that was active before the run.
C14_CompletionDrawsNewActiveImage ==
  (lastEvent = "tick" /\ ~isAnimatingRef /\ ~ZeroArea(viewportRef.width, viewportRef.height)) =>
    /\ Len(draws) >= 2
    /\ draws[2].op = "static"
    /\ draws[2].drew
    /\ activeIndex = transitionRef.to
    /\ draws[2].a = images[transitionRef.to]
    /\ draws[2].a # images[transitionRef.from]

\* the Image objects of slot i that are loading
LoadsOf(queue, i) == {l \in queue : l.slot = i}

\* C15: replacing the source of one slot leaves the other slot alone: its
\* loaded image is unchanged and no load is started for it; a slot's loaded
\* image changes only when its own source changes or its own load completes.
C15_ReplaceAffectsOnlyItsSlot ==
  [][ \A i \in Slots :
        /\ (lastEvent' = "replace" /\ sources'[i] = sources[i])
             => /\ images'[i] = images[i]
                /\ LoadsOf(loads', i) = LoadsOf(loads, i)
        /\ images'[i] # images[i]
             => \/ sources'[i] # sources[i]
                \/ lastEvent' = "load" /\ LoadsOf(loads', i) # LoadsOf(loads, i)
    ]_vars

\* C16: TransitionState always has from # to, both in {0,1}; it changes only
\* in an accepted start, which writes from = the activeIndex of that moment
\* and to = the other index; while a run lasts it is not modified.
C16_TransitionStateSetOnceAtStart ==
  /\ [](/\ transitionRef.from \in {0, 1}
        /\ transitionRef.to \in {0, 1}
        /\ transitionRef.from # transitionRef.to)
  /\ [][ /\ transitionRef' # transitionRef
            => (lastEvent' = "start" /\ ~isAnimatingRef /\ isAnimatingRef')
         /\ (lastEvent' = "start" /\ ~isAnimatingRef /\ isAnimatingRef')
            => transitionRef' = [from |-> activeIndex, to |-> 1 - activeIndex]
         /\ isAnimatingRef => transitionRef' = transitionRef ]_vars

\* the second run was just accepted: TransitionState now says 1 -> 0
C16_Witness ==
  /\ lastEvent = "start"
  /\ isAnimatingRef
  /\ lastProgress = NoProgress
  /\ pending # {}
  /\ activeIndex = 1
  /\ transitionRef = [from |-> 1, to |-> 0]

\* C17: for every viewport with width, height > 0 the silhouette polygon of
\* progress 0 is off the left edge (every point has x <= 0) and the polygon
\* of progress 1 is off the right edge (every point has x >= width).
C17_SilhouetteStartsAndEndsOffscreen ==
  (probe.kind = "geometry" /\ probe.applied) =>
    LET g == probe.geometry
    IN /\ probe.progress.num = 0
            => \A k \in DOMAIN g.xs : g.xs[k] <= 0
       /\ probe.progress.num = probe.progress.den
            => \A k \in DOMAIN g.xs : g.xs[k] >= probe.width * g.scale

\* the sway's part of a rotation: rotation - base angle, times fade.den
SwayPart(f) == f.rotation.num - FeatherBaseAngle * f.rotation.den

\* |n|
Abs(n) == IF n < 0 THEN 0 - n ELSE n

\* what drawFeathers did with the seed in the two frames
ProbedFeathers == {probe.atP, probe.atQ}

\* C18 as stated: for every feather that is drawn the rotation is the base
\* angle plus seed.sway * fade.
C18_RotationIsBasePlusSwayTimesFade ==
  (probe.kind = "feather" /\ probe.applied) =>
    \A f \in ProbedFeathers :
      f.drawn => f.rotation.num * f.fade.den
                   = (FeatherBaseAngle * f.fade.den + probe.sway * f.fade.num)
                     * f.rotation.den

\* C18, amended: for every feather that is drawn the rotation is the base
\* angle plus seed.sway * (1 - fade); so the sway's part has the sign of the
\* sway, is smaller than the sway, and of two frames of one feather the
\* later one (progress p <= q, fade smaller) has the larger sway part: it
\* grows from zero as the feather dissipates.
C18_RotationIsBasePlusSwayTimesOneMinusFade ==
  (probe.kind = "feather" /\ probe.applied) =>
    /\ \A f \in ProbedFeathers :
         f.drawn =>
           /\ f.rotation.num * f.fade.den
                = (FeatherBaseAngle * f.fade.den
                   + probe.sway * (f.fade.den - f.fade.num)) * f.rotation.den
           /\ SwayPart(f) * probe.sway >= 0
           /\ Abs(SwayPart(f)) <= Abs(probe.sway) * f.rotation.den
    /\ (probe.atP.drawn /\ probe.atQ.drawn /\ FracLeq(probe.p, probe.q))
         => /\ FracLeq(probe.atQ.fade, probe.atP.fade)
            /\ Abs(SwayPart(probe.atP)) * probe.atQ.rotation.den
                 <= Abs(SwayPart(probe.atQ)) * probe.atP.rotation.den

\* one feather drawn in two frames, the later one nearer to its end, with a
\* sway that is not zero
C18_Witness ==
  /\ probe.kind = "feather"
  /\ probe.applied
  /\ probe.sway = 900
  /\ probe.delay = 2
  /\ probe.atP.drawn
  /\ probe.atQ.drawn
  /\ probe.p.num < probe.q.num
  /\ probe.atQ.fade.num * probe.atP.fade.den < probe.atP.fade.num * probe.atQ.fade.den
  /\ Abs(SwayPart(probe.atP)) * probe.atQ.rotation.den
       < Abs(SwayPart(probe.atQ)) * probe.atP.rotation.den

\* C19: the first tick of every run draws a frame of progress exactly 0 and
\* takes its own timestamp as the start of the run (whatever time passed
\* since the trigger or since an earlier run), and a run ends only in a tick
\* that draws a frame of progress exactly 1.
C19_RunClockStartsAtFirstTick ==
  [][ /\ (lastEvent' = "start" /\ ~isAnimatingRef /\ isAnimatingRef')
           => lastProgress' = NoProgress
      /\ (lastEvent' = "tick" /\ lastProgress = NoProgress)
           => /\ draws'[1].op = "frame"
              /\ draws'[1].progress = [num |-> 0, den |-> 1]
              /\ startTimestampRef' = now'
              /\ isAnimatingRef'
      /\ (isAnimatingRef /\ ~isAnimatingRef')
           => /\ lastEvent' = "tick"
              /\ draws'[1].op = "frame"
              /\ draws'[1].progress = [num |-> 1, den |-> 1]
              /\ Len(draws') >= 2
              /\ draws'[2].op = "static" ]_vars

\* the first tick of the second run, later than the first run's last tick
C19_Witness ==
  /\ lastEvent = "tick"
  /\ isAnimatingRef
  /\ transitionRef = [from |-> 1, to |-> 0]
  /\ lastProgress = [num |-> 0, den |-> 1]
  /\ startTimestampRef = now
  /\ now >= 3 * FrameInterval

\* C20: a change of the duration setting during a run draws nothing and
\* leaves the run alone (pending tick, run start, progress, running flags);
\* an accepted start takes the duration configured at that moment, every tick
\* of the run computes progress = elapsed / that duration, and the chain of
\* ticks carries it unchanged.
C20_DurationFixedForTheRun ==
  [][ /\ (lastEvent' = "duration" /\ isAnimatingRef)
           => /\ draws' = << >>
              /\ UNCHANGED << pending, animationFrameRef, startTimestampRef,
                              isAnimatingRef, isAnimating, lastProgress,
                              transitionRef, activeIndex, now >>
      /\ (lastEvent' = "start" /\ ~isAnimatingRef /\ isAnimatingRef')
           => \A cb \in pending' : cb.env.duration = duration
      /\ lastEvent' = "tick"
           => /\ \A cb \in pending :
                   lastProgress'
                     = clamp01(now' - (IF startTimestampRef = 0 THEN now'
                                                                ELSE startTimestampRef),
                               cb.env.duration)
              /\ \A next \in pending' : \E cb \in pending :
                   next.env.duration = cb.env.duration ]_vars

\* a run started with the default duration is still running although the
\* duration was lowered during it and the lower duration has already elapsed
C20_Witness ==
  /\ lastEvent = "tick"
  /\ isAnimatingRef
  /\ duration = MinDuration
  /\ \E cb \in pending : cb.env.duration = DefaultDuration
  /\ startTimestampRef # 0
  /\ now - startTimestampRef >= MinDuration
  /\ lastProgress.num > 0
  /\ lastProgress.num < lastProgress.den

====
